---- MODULE Spec2Model ----
(***************************************************************************)
(* Model of src/contextwindow.py (class ContextWindow).                    *)
(*                                                                         *)
(* Reading of the source.  The file calls its own methods by bare name     *)
(* (_token_count(...), _construct_role_dict(...), ...), builds the turn    *)
(* record at line 57 through the name _construct_role_dict with the        *)
(* argument list of _construct_message_dict, reads the bare names data     *)
(* and function_info inside _message_dict_to_message, and uses time        *)
(* without importing it.  A bare name that is bound nowhere is read as     *)
(* what it denotes: the method of that name on self, the method whose      *)
(* argument list the call has (line 57), the field of message_dict         *)
(* (lines 263-291), the standard module.  Nothing else is read charitably: *)
(* every operation acts on the values the code gives it, with Python's     *)
(* semantics, and an operation Python rejects raises at that line and      *)
(* leaves the effects of the lines before it in place.                     *)
(*                                                                         *)
(* Values.  A text is a sequence of tokens, so string concatenation is \o  *)
(* and the tokenizer's count is Len.  Python's None is the reserved text   *)
(* NoneV (and NoneFI, NoneFC for an absent dict).  A dict is a record, and *)
(* a key lookup is guarded by the record's DOMAIN.                         *)
(***************************************************************************)
EXTENDS Integers, Sequences, FiniteSets, TLC

VARIABLES
    high_level_overview,     \* text given at construction (line 27)
    max_tokens,              \* budget given at construction (line 31)
    messages,                \* the compacted ledger (line 32)
    enhanced_messages,       \* the enhanced ledger (line 33)
    total_tokens,            \* running total (line 34)
    tokens_sent,             \* tokens sent to the service (line 35)
    summarization_messages,  \* the sub-flow's list (line 37)
    last                     \* what the most recent call did and returned

vars == <<high_level_overview, max_tokens, messages, enhanced_messages,
          total_tokens, tokens_sent, summarization_messages, last>>

-----------------------------------------------------------------------------
(* Bounds *)

\* add_message is not called once the compacted ledger holds this many entries
MaxMsgs == 4

\* generate_message_summary is not called from outside once the sub-flow's list holds
\* this many entries
MaxSumm == 2

\* _call_openai is tried with max_retries from 0 to this
MaxRetries == 3

\* _call_openai is not called on its own once tokens_sent has reached this
MaxSent == 3
MaxArgs == 2
MaxTurnMsgs == 5

-----------------------------------------------------------------------------
(* Python values *)

NoneV == <<"#None">>

NoneFI == [name |-> "#None", description |-> <<>>, parameter_list |-> <<>>]

NoneFC == [name |-> "#None", arguments |-> <<>>]

\* str(x) / f"{x}" of a text or None
Str(x) == IF x = NoneV THEN <<"None">> ELSE x

HasKey(d, k) == k \in DOMAIN d

RECURSIVE Concat(_)
Concat(ss) == IF ss = <<>> THEN <<>> ELSE Head(ss) \o Concat(Tail(ss))

\* sep.join(parts)
RECURSIVE Join(_, _)
Join(sep, parts) ==
    IF parts = <<>> THEN <<>>
    ELSE IF Len(parts) = 1 THEN parts[1]
    ELSE parts[1] \o sep \o Join(sep, Tail(parts))

DataPolicy == {"DataPolicy.PURE", "DataPolicy.REMOVE", "DataPolicy.SUMMARIZE"}

FunctionPolicy == {"FunctionPolicy.INCLUDE", "FunctionPolicy.IGNORE"}

-----------------------------------------------------------------------------
(* Helpers of the class *)

_construct_role_dict(role, content) == [role |-> role, content |-> content]

\* len(encoder.encode(message)); encode rejects None with a TypeError, which the
\* callers below test for before they use the count
_token_count(message) == Len(message)

DefaultMaxRetries == 1

summarization_system == <<"You are an assistant that is helping make a more functional version of GPT.">>

\* One schema property of _create_function_info: the "items" key is there for arrays only
ParamInfo(p) ==
    IF p.type = "array"
    THEN [type |-> p.type, description |-> p.description, items |-> [type |-> "string"]]
    ELSE [type |-> p.type, description |-> p.description]

\* function_info["parameters"]["properties"][param_name] = param_info, in a dict that
\* keeps insertion order: a repeated name keeps its first place and takes the new value
RECURSIVE SetProperty(_, _, _)
SetProperty(props, name, info) ==
    IF props = <<>> THEN <<[name |-> name, info |-> info]>>
    ELSE IF Head(props).name = name THEN <<[name |-> name, info |-> info]>> \o Tail(props)
    ELSE <<Head(props)>> \o SetProperty(Tail(props), name, info)

RECURSIVE BuildProperties(_, _)
BuildProperties(parameter_list, props) ==
    IF parameter_list = <<>> THEN props
    ELSE BuildProperties(Tail(parameter_list),
                         SetProperty(props, Head(parameter_list).name,
                                     ParamInfo(Head(parameter_list))))

RECURSIVE BuildRequired(_)
BuildRequired(parameter_list) ==
    IF parameter_list = <<>> THEN <<>>
    ELSE (IF Head(parameter_list).required THEN <<Head(parameter_list).name>> ELSE <<>>)
         \o BuildRequired(Tail(parameter_list))

_create_function_info(name, description, parameter_list) ==
    [name |-> name,
     description |-> description,
     parameters |-> [type |-> "object",
                     properties |-> BuildProperties(parameter_list, <<>>),
                     required |-> BuildRequired(parameter_list)]]

\* str(function_info) of the caller's dict: its keys and values in order
RECURSIVE StrParams(_)
StrParams(parameter_list) ==
    IF parameter_list = <<>> THEN <<>>
    ELSE LET p == Head(parameter_list) IN
         <<p.name, p.type>> \o p.description \o <<IF p.required THEN "True" ELSE "False">>
         \o StrParams(Tail(parameter_list))

StrFunctionInfo(fi) ==
    IF fi = NoneFI THEN <<"None">>
    ELSE <<"name", fi.name, "description">> \o fi.description
         \o <<"parameter_list">> \o StrParams(fi.parameter_list)

\* The clauses of _generate_function_description, one per item of arguments.items()
RECURSIVE ArgumentClauses_rev(_)
ArgumentClauses_rev(arguments) ==
    IF arguments = <<>> THEN <<>>
    ELSE ArgumentClauses_rev(Tail(arguments))
         \o <<<<"For parameter", Head(arguments)[1], "the model generated",
                Head(arguments)[2], ".">>>>

RECURSIVE ArgumentClauses(_)
ArgumentClauses(arguments) ==
    IF arguments = <<>> THEN <<>>
    ELSE <<<<"For parameter", Head(arguments)[1], "the model generated",
             Head(arguments)[2], ".">>>>
         \o ArgumentClauses(Tail(arguments))

\* json.loads of a JSON object: a dict in the order of first occurrence of each key,
\* a repeated key taking its last value
RECURSIVE JsonLoads(_, _)
JsonLoads(pairs, acc) ==
    IF pairs = <<>> THEN acc
    ELSE LET k == Head(pairs)[1]
             v == Head(pairs)[2]
             at == {i \in 1..Len(acc) : acc[i][1] = k}
         IN JsonLoads(Tail(pairs),
                      IF at = {} THEN Append(acc, <<k, v>>)
                      ELSE [i \in 1..Len(acc) |-> IF i \in at THEN <<k, v>> ELSE acc[i]])

_generate_function_description(model_func) ==
    IF model_func = NoneFC THEN NoneV
    ELSE LET function_name == model_func.name
             arguments == JsonLoads(model_func.arguments, <<>>)
         IN IF arguments = <<>>
            THEN <<"The model attempted to call the function", function_name,
                   "but did not provide any parameters.">>
            ELSE Join(<<>>,
                      <<<<"The model returned function parameters for the requested function",
                          function_name, ".">>>>
                      \o ArgumentClauses(arguments))

-----------------------------------------------------------------------------
(* The completion service *)

\* What one call of openai.ChatCompletion.create can do: return a message, raise
\* json.JSONDecodeError, or raise anything else
Response(content, function_call) ==
    [kind |-> "response", content |-> content, function_call |-> function_call]

JSONDecodeError == [kind |-> "JSONDecodeError", content |-> NoneV, function_call |-> NoneFC]

OtherError == [kind |-> "error", content |-> NoneV, function_call |-> NoneFC]

\* The loop with every exception caught, not json.JSONDecodeError alone
RECURSIVE RetryLoop_catchAll(_, _, _)
RetryLoop_catchAll(retries, max_retries, attempts) ==
    IF retries < max_retries
    THEN LET a == attempts[retries + 1] IN
         IF a.kind = "response"
         THEN [err |-> "", response |-> a, calls |-> retries + 1]
         ELSE RetryLoop_catchAll(retries + 1, max_retries, attempts)
    ELSE [err |-> "Exception@362", response |-> JSONDecodeError, calls |-> retries]

\* The while loop of _call_openai from `retries` on. attempts[i] is what the service
\* does at the i-th call. calls counts the calls made.
RECURSIVE RetryLoop(_, _, _)
RetryLoop(retries, max_retries, attempts) ==
    IF retries < max_retries
    THEN LET a == attempts[retries + 1] IN
         IF a.kind = "response"
         THEN [err |-> "", response |-> a, calls |-> retries + 1]
         ELSE IF a.kind = "JSONDecodeError"
         THEN RetryLoop(retries + 1, max_retries, attempts)
         ELSE [err |-> "ServiceError", response |-> a, calls |-> retries + 1]
    ELSE [err |-> "Exception@362", response |-> JSONDecodeError, calls |-> retries]

\* _call_openai without the count of line 329
_call_openai_noCount(msgs, function_info, max_retries, attempts, sent, total) ==
    LET functions == IF function_info = NoneFI THEN <<>> ELSE <<function_info>>
        loop == RetryLoop(0, max_retries, attempts)
    IN [err |-> loop.err,
        response |-> loop.response,
        tokens_sent |-> sent,
        calls |-> [i \in 1..loop.calls |-> [messages |-> msgs, functions |-> functions]]]

\* _call_openai(messages, function_info, max_retries) with examples=[]
_call_openai(msgs, function_info, max_retries, attempts, sent, total) ==
    LET functions == IF function_info = NoneFI THEN <<>> ELSE <<function_info>>
        loop == RetryLoop(0, max_retries, attempts)
    IN [err |-> loop.err,
        response |-> loop.response,
        tokens_sent |-> sent + total,
        calls |-> [i \in 1..loop.calls |-> [messages |-> msgs, functions |-> functions]]]

-----------------------------------------------------------------------------
(* Summarization sub-flow *)

\* list.remove(x): drops the first element equal to x, raises ValueError without one.
\* The list holds role dicts and x is the integer -1 (line 92), so no element is equal.
ListRemoveMinusOne(list) == [err |-> "ValueError@92", list |-> list]

generate_message_summary(data, summ, attempts, sent, total) ==
    LET summ1 == Append(summ, _construct_role_dict("user",
                        <<"Please summarize the following:">> \o Str(data)))
        call == _call_openai(summ1, NoneFI, DefaultMaxRetries, attempts, sent, total)
        rem == ListRemoveMinusOne(summ1)
    IN IF call.err # ""
       THEN [err |-> call.err, summary |-> NoneV, summarization_messages |-> summ1,
             tokens_sent |-> call.tokens_sent, calls |-> call.calls]
       ELSE IF rem.err # ""
       THEN [err |-> rem.err, summary |-> NoneV, summarization_messages |-> rem.list,
             tokens_sent |-> call.tokens_sent, calls |-> call.calls]
       ELSE [err |-> "", summary |-> call.response.content,
             summarization_messages |-> rem.list,
             tokens_sent |-> call.tokens_sent, calls |-> call.calls]

-----------------------------------------------------------------------------
(* Compaction engine *)

DataFraming == <<"Along with this message, the user sent the following data:">>

FunctionFraming(name) ==
    <<"Along with this message, the user requested for their function named", name,
      "to be supplied with the following parameters:">>

type_map(param_type) ==
    CASE param_type = "int" -> "a number representing"
      [] param_type = "string" -> "a string of"
      [] param_type = "boolean" -> "a boolean indicating"
      [] param_type = "array" -> "an array of"
      [] OTHER -> param_type

ParamTypeDesc(param_info) ==
    IF param_info.type = "array"
    THEN <<type_map(param_info.type), param_info.items.type, "s">>
    ELSE <<type_map(param_info.type)>> \o param_info.description

RECURSIVE ParamDescs(_)
ParamDescs(props) ==
    IF props = <<>> THEN <<>>
    ELSE <<ParamTypeDesc(Head(props).info)>> \o ParamDescs(Tail(props))

\* function_desc of lines 277-291
FunctionDesc(function_info) ==
    FunctionFraming(function_info.name)
    \o Join(<<",">>, ParamDescs(function_info.parameters.properties)) \o <<".">>

\* line 276: the stored function_policy is compared with the string "include"
IncludesFunction(function_policy, function_info) ==
    function_policy = "include" /\ function_info # NoneFI

\* lines 262-270: the text the data policy selects, before the summarizer is asked
DataBranch(data_policy) ==
    IF data_policy = "DataPolicy.PURE" THEN "pure"
    ELSE IF data_policy = "DataPolicy.SUMMARIZE" THEN "summarize"
    ELSE IF data_policy = "DataPolicy.REMOVE" THEN "remove"
    ELSE "raise"

\* _message_dict_to_message(message_dict). token_count is message_dict["token_count"]
\* as the call leaves it (the dict is changed in place, also when the call raises).
_message_dict_to_message(message_dict, summ, attempts, sent, total) ==
    LET uc == message_dict.user_content
        tc0 == _token_count(uc)
        branch == DataBranch(message_dict.data_policy)
        s == generate_message_summary(message_dict.data, summ, attempts, sent, total)
        summ1 == IF branch = "summarize" THEN s.summarization_messages ELSE summ
        sent1 == IF branch = "summarize" THEN s.tokens_sent ELSE sent
        calls1 == IF branch = "summarize" THEN s.calls ELSE <<>>
        data_msg == CASE branch = "pure" -> message_dict.data
                      [] branch = "summarize" -> s.summary
                      [] OTHER -> NoneV
        withData == data_msg # <<>>
        final1 == IF withData THEN uc \o DataFraming \o Str(data_msg) \o <<".">> ELSE uc
        tc1 == IF withData THEN tc0 + _token_count(data_msg) ELSE tc0
        withFn == IncludesFunction(message_dict.function_policy, message_dict.function_info)
        function_desc == FunctionDesc(message_dict.function_info)
        final2 == IF withFn THEN final1 \o function_desc ELSE final1
        tc2 == IF withFn THEN tc1 + _token_count(function_desc) ELSE tc1
        Raise(e) == [err |-> e, text |-> NoneV, token_count |-> tc0,
                     summarization_messages |-> summ1, tokens_sent |-> sent1,
                     calls |-> calls1]
    IN IF branch = "raise" THEN Raise("ValueError@270")
       ELSE IF branch = "summarize" /\ s.err # "" THEN Raise(s.err)
       ELSE IF withData /\ data_msg = NoneV THEN Raise("TypeError@274")
       ELSE [err |-> "", text |-> final2, token_count |-> tc2,
             summarization_messages |-> summ1, tokens_sent |-> sent1, calls |-> calls1]

-----------------------------------------------------------------------------
(* Window fitter *)

\* line 128
BudgetExceeded_lt(overview_tokens, recent_user_message_tokens, budget) ==
    overview_tokens + recent_user_message_tokens < budget

BudgetExceeded(overview_tokens, recent_user_message_tokens, budget) ==
    overview_tokens + recent_user_message_tokens > budget

\* The loop of lines 139-145 from the 0-based index idx on; -1 stands for the
\* exception that message["token_count"] raises on an entry without that key
RECURSIVE FitScan(_, _, _, _)
FitScan(msgs, idx, accumulated_tokens, threshold) ==
    IF idx >= Len(msgs) THEN 0
    ELSE LET message == msgs[idx + 1] IN
         IF ~HasKey(message, "token_count") THEN -1
         ELSE LET acc == accumulated_tokens + message.token_count IN
              IF acc <= threshold THEN idx
              ELSE FitScan(msgs, idx + 1, acc, threshold)

Abs(n) == IF n < 0 THEN -n ELSE n

_fit_context_window(msgs, enh, total, overview_tokens, budget) ==
    LET recent_user_message_tokens == enh[Len(enh)].token_count
        remaining_tokens == budget - total - overview_tokens
        scan == FitScan(msgs, 0, 0, Abs(remaining_tokens))
    IN IF BudgetExceeded(overview_tokens, recent_user_message_tokens, budget)
       THEN [err |-> "ValueError@129", idx |-> -1]
       ELSE IF remaining_tokens < 0
       THEN IF scan = -1
            THEN [err |-> IF HasKey(msgs[1], "role") THEN "KeyError@140" ELSE "TypeError@140",
                  idx |-> -1]
            ELSE [err |-> "", idx |-> scan]
       ELSE [err |-> "", idx |-> 0]

-----------------------------------------------------------------------------
(* Context window manager *)

\* _construct_message_dict(...): function_info["name"] raises on None (line 232)
_construct_message_dict(user_content, data, data_policy, function_info, function_policy) ==
    IF function_info = NoneFI
    THEN [err |-> "TypeError@232"]
    ELSE [err |-> "",
          dict |-> [user_content |-> user_content,
                    data |-> data,
                    data_policy |-> data_policy,
                    function_info |-> _create_function_info(function_info.name,
                                          function_info.description,
                                          function_info.parameter_list),
                    function_policy |-> function_policy,
                    token_count |-> _token_count(user_content) + _token_count(data)
                                    + _token_count(StrFunctionInfo(function_info))]]

\* 1-based position of list[-3]; 0 or less when the list is shorter than three
ThirdFromBack(list) == Len(list) - 2

\* line 65: self.messages[-3] = entry
ReplaceThirdFromBack_m4(list, entry) == [list EXCEPT ![Len(list) - 3] = entry]

ReplaceThirdFromBack(list, entry) == [list EXCEPT ![ThirdFromBack(list)] = entry]

\* line 62
HasPrevious(msgs) == Len(msgs) >= 3

\* messages[idx:] for a 0-based idx
SliceFrom(msgs, idx) == SubSeq(msgs, idx + 1, Len(msgs))

NoCompact == [ran |-> FALSE, at |-> 0, turn |-> NoneFI, err |-> "", text |-> NoneV]

NoFit == [ran |-> FALSE, idx |-> -1, len |-> 0]

NoArgs == [user_content |-> NoneV, data |-> NoneV, data_policy |-> "None",
           function_info |-> NoneFI, function_policy |-> "FunctionPolicy.IGNORE"]

\* The state a call leaves and the record of what it did
Outcome(msgs, enh, total, sent, summ, lst) ==
    [messages |-> msgs, enhanced_messages |-> enh, total_tokens |-> total,
     tokens_sent |-> sent, summarization_messages |-> summ, last |-> lst]

\* lines 70-79: the response as recorded
ResOf(model_response) ==
    IF model_response.function_call # NoneFC
    THEN [model_response |-> _generate_function_description(model_response.function_call),
          function_values |-> model_response.function_call]
    ELSE [model_response |-> model_response.content]

\* add_message(user_content, data, data_policy, function_info, function_policy) from the
\* current state; attempts is what the completion service does at each call
add_message(args, attempts) ==
    LET overview_tokens == _token_count(high_level_overview)
        Done(outcome, msgs, enh, total, sent, summ, calls, fit, compact) ==
            Outcome(msgs, enh, total, sent, summ,
                    [op |-> "add_message", outcome |-> outcome, args |-> args,
                     calls |-> calls, fit |-> fit, compact |-> compact])
        \* line 56
        msgs1 == Append(messages,
                        _construct_role_dict("user", args.user_content \o args.data))
        \* lines 57-58
        built == _construct_message_dict(args.user_content, args.data, args.data_policy,
                                         args.function_info, args.function_policy)
        message_struct == built.dict
        enh1 == Append(enhanced_messages, message_struct)
        \* lines 62-66
        at == ThirdFromBack(enh1)
        prev_user_message == enh1[at]
        total1 == total_tokens - prev_user_message.token_count
        c == _message_dict_to_message(prev_user_message, summarization_messages,
                                      attempts, tokens_sent, total1)
        enh2 == [enh1 EXCEPT ![at].token_count = c.token_count]
        msgs2 == ReplaceThirdFromBack(msgs1, [str |-> c.text])
        compact == [ran |-> TRUE, at |-> at, turn |-> prev_user_message,
                    err |-> c.err, text |-> c.text]
        \* line 68
        fit == _fit_context_window(msgs1, enh1, total_tokens, overview_tokens, max_tokens)
        fitrec == [ran |-> TRUE, idx |-> fit.idx, len |-> Len(msgs1)]
        \* line 69
        call == _call_openai(SliceFrom(msgs1, fit.idx), message_struct.function_info,
                             DefaultMaxRetries, attempts, tokens_sent, total_tokens)
        \* lines 70-79
        res == ResOf(call.response)
    IN IF args.data = NoneV
       THEN Done("TypeError@56", messages, enhanced_messages, total_tokens, tokens_sent,
                 summarization_messages, <<>>, NoFit, NoCompact)
       ELSE IF built.err # ""
       THEN Done(built.err, msgs1, enhanced_messages, total_tokens, tokens_sent,
                 summarization_messages, <<>>, NoFit, NoCompact)
       ELSE IF HasPrevious(msgs1)
       THEN IF at < 1
            THEN Done("IndexError@63", msgs1, enh1, total_tokens, tokens_sent,
                      summarization_messages, <<>>, NoFit, NoCompact)
            ELSE IF ~HasKey(prev_user_message, "token_count")
            THEN Done("KeyError@64", msgs1, enh1, total_tokens, tokens_sent,
                      summarization_messages, <<>>, NoFit, NoCompact)
            ELSE IF c.err # ""
            THEN Done(c.err, msgs1, enh2, total1, c.tokens_sent,
                      c.summarization_messages, c.calls, NoFit, compact)
            \* line 66: messages[-3] is now a str, and a str takes no key
            ELSE Done("TypeError@66", msgs2, enh2, total1, c.tokens_sent,
                      c.summarization_messages, c.calls, NoFit, compact)
       ELSE IF fit.err # ""
       THEN Done(fit.err, msgs1, enh1, total_tokens, tokens_sent,
                 summarization_messages, <<>>, fitrec, NoCompact)
       ELSE IF call.err # ""
       THEN Done(call.err, msgs1, enh1, total_tokens, call.tokens_sent,
                 summarization_messages, call.calls, fitrec, NoCompact)
       ELSE Done("ok", Append(msgs1, _construct_role_dict("assistant", res.model_response)),
                 Append(enh1, res), total_tokens, call.tokens_sent,
                 summarization_messages, call.calls, fitrec, NoCompact)

-----------------------------------------------------------------------------
(* Inputs *)

\* n tokens of overview text
OverviewText(n) == [i \in 1..n |-> "o"]

\* The constructor's default_data_policy argument, left at its default
default_data_policy == "DataPolicy.PURE"

\* (overview tokens, max_tokens): a budget no turn fits, one every turn fits, and one
\* every turn fits while the overview counted twice does not
Configs == {<<1, 2>>, <<1, 16>>, <<16, 31>>}

FI == [name |-> "f", description |-> <<"fd">>,
       parameter_list |-> <<[name |-> "p", type |-> "string", description |-> <<"pd">>,
                             required |-> TRUE],
                            [name |-> "q", type |-> "array", description |-> <<"qd">>,
                             required |-> FALSE]>>]

Args(data, data_policy, function_info, function_policy) ==
    [user_content |-> <<"u">>, data |-> data, data_policy |-> data_policy,
     function_info |-> function_info, function_policy |-> function_policy]

\* The calls of add_message: one plain call, and the arguments varied from it
AddMessageArgs ==
    {Args(<<"d">>, dp, FI, "FunctionPolicy.IGNORE") : dp \in DataPolicy \cup {"None"}}
    \cup {Args(<<"d">>, "bogus", FI, "bogus")}
    \cup {Args(NoneV, "DataPolicy.PURE", FI, "FunctionPolicy.IGNORE")}
    \cup {Args(<<"d">>, "DataPolicy.PURE", NoneFI, "FunctionPolicy.IGNORE")}
    \cup {Args(<<"d">>, "DataPolicy.PURE", FI, fp) : fp \in {"FunctionPolicy.INCLUDE", "include"}}

Responses ==
    {Response(<<"r">>, NoneFC),
     Response(NoneV, [name |-> "f", arguments |-> <<<<"p", "1">>, <<"q", "2">>>>]),
     Response(NoneV, [name |-> "f", arguments |-> <<>>])}

AttemptSeqs == [1..DefaultMaxRetries -> Responses \cup {JSONDecodeError, OtherError}]

-----------------------------------------------------------------------------
(* Specification *)

\* __init__ (lines 27-41)
Init ==
    /\ \E c \in Configs : high_level_overview = OverviewText(c[1]) /\ max_tokens = c[2]
    /\ messages = <<_construct_role_dict("system", high_level_overview)>>
    /\ enhanced_messages = <<>>
    /\ total_tokens = _token_count(high_level_overview)
    /\ tokens_sent = 0
    /\ summarization_messages = <<_construct_role_dict("system", summarization_system)>>
    /\ last = [op |-> "init", outcome |-> "ok", args |-> NoArgs, calls |-> <<>>,
               fit |-> NoFit, compact |-> NoCompact]

Apply(r) ==
    /\ messages' = r.messages
    /\ enhanced_messages' = r.enhanced_messages
    /\ total_tokens' = r.total_tokens
    /\ tokens_sent' = r.tokens_sent
    /\ summarization_messages' = r.summarization_messages
    /\ last' = r.last
    /\ UNCHANGED <<high_level_overview, max_tokens>>

AddMessage ==
    /\ Len(messages) < MaxMsgs
    /\ \E args \in AddMessageArgs, attempts \in AttemptSeqs :
          Apply(add_message(args, attempts))

\* generate_message_summary(data) called by the user of the class
GenerateMessageSummary ==
    /\ Len(summarization_messages) < MaxSumm
    /\ \E attempts \in AttemptSeqs :
          LET s == generate_message_summary(<<"d">>, summarization_messages, attempts,
                                            tokens_sent, total_tokens)
          IN Apply(Outcome(messages, enhanced_messages, total_tokens, s.tokens_sent,
                           s.summarization_messages,
                           [op |-> "generate_message_summary",
                            outcome |-> IF s.err = "" THEN "ok" ELSE s.err,
                            args |-> [NoArgs EXCEPT !.data = <<"d">>],
                            calls |-> s.calls, fit |-> NoFit, compact |-> NoCompact]))

\* What visualize_context_window prints for the entries from the 0-based idx on, and
\* the exception that ends it: a str entry takes no "role" key (line 102)
RECURSIVE PrintFrom(_, _)
PrintFrom(msgs, idx) ==
    IF idx >= Len(msgs) THEN [err |-> "", out |-> <<>>]
    ELSE LET message == msgs[idx + 1]
             head == [line |-> "Message", n |-> idx + 1]
             rest == PrintFrom(msgs, idx + 1)
         IN IF ~HasKey(message, "role")
            THEN [err |-> "TypeError@102", out |-> <<head>>]
            ELSE [err |-> rest.err,
                  out |-> <<head,
                            [line |-> "Role", text |-> <<message.role>>],
                            [line |-> "Content", text |-> Str(message.content)],
                            [line |-> "------------------------"]>> \o rest.out]

visualize_context_window(msgs) == PrintFrom(msgs, 0)

VisualizeContextWindow ==
    LET v == visualize_context_window(messages)
    IN /\ last' = [op |-> "visualize_context_window",
                   outcome |-> IF v.err = "" THEN "ok" ELSE v.err,
                   args |-> NoArgs, calls |-> <<>>, fit |-> NoFit, compact |-> NoCompact,
                   out |-> v.out]
       /\ UNCHANGED <<high_level_overview, max_tokens, messages, enhanced_messages,
                      total_tokens, tokens_sent, summarization_messages>>

Next == AddMessage \/ GenerateMessageSummary \/ VisualizeContextWindow

Spec == Init /\ [][Next]_vars

-----------------------------------------------------------------------------
(* The helpers on their own *)

ServiceOutcomes == {Response(<<"r">>, NoneFC), JSONDecodeError, OtherError}

\* _call_openai(self.messages, max_retries=m) against a service that does attempts[i]
\* at its i-th call
CallOpenai ==
    /\ tokens_sent < MaxSent
    /\ \E m \in 0..MaxRetries :
          \E attempts \in [1..(m + 1) -> ServiceOutcomes] :
             LET call == _call_openai(messages, NoneFI, m, attempts, tokens_sent,
                                      total_tokens)
             IN /\ tokens_sent' = call.tokens_sent
                /\ last' = [op |-> "_call_openai",
                            outcome |-> IF call.err = "" THEN "ok" ELSE call.err,
                            args |-> NoArgs, calls |-> call.calls, fit |-> NoFit,
                            compact |-> NoCompact, max_retries |-> m,
                            attempts |-> attempts, response |-> call.response]
                /\ UNCHANGED <<high_level_overview, max_tokens, messages,
                               enhanced_messages, total_tokens, summarization_messages>>

\* A longer conversation of add_message calls alone: well-formed turns and turns
\* that leave function_info at its default None
TurnArgs ==
    {Args(<<"d">>, dp, fi, "FunctionPolicy.IGNORE") :
        dp \in {"DataPolicy.PURE", "DataPolicy.SUMMARIZE"}, fi \in {FI, NoneFI}}

AddMessageTurn ==
    /\ Len(messages) < MaxTurnMsgs
    /\ \E args \in TurnArgs, attempts \in AttemptSeqs : Apply(add_message(args, attempts))

SpecTurns == Init /\ [][AddMessageTurn]_vars

\* The "arguments" object of a function call as the service writes it: name/value pairs
ArgumentPairs ==
    UNION {[1..n -> {"a", "b", "c"} \X {"1", "2"}] : n \in 0..MaxArgs}

ModelFuncs == {NoneFC} \cup {[name |-> "f", arguments |-> a] : a \in ArgumentPairs}

GenerateFunctionDescription ==
    \E model_func \in ModelFuncs :
       /\ last' = [op |-> "_generate_function_description", outcome |-> "ok",
                   args |-> NoArgs, calls |-> <<>>, fit |-> NoFit, compact |-> NoCompact,
                   model_func |-> model_func,
                   out |-> _generate_function_description(model_func)]
       /\ UNCHANGED <<high_level_overview, max_tokens, messages, enhanced_messages,
                      total_tokens, tokens_sent, summarization_messages>>

NextHelpers == CallOpenai \/ GenerateFunctionDescription

SpecHelpers == Init /\ [][NextHelpers]_vars

-----------------------------------------------------------------------------
(* Properties *)

Seed == _construct_role_dict("system", summarization_system)

Overview == _construct_role_dict("system", high_level_overview)

\* The Token Accountant's count of one entry of the compacted ledger (None counts zero)
EntryTokens(e) ==
    IF HasKey(e, "role")
    THEN (IF e.content = NoneV THEN 0 ELSE _token_count(e.content))
    ELSE _token_count(e.str)

RECURSIVE SumTokens(_)
SumTokens(list) ==
    IF list = <<>> THEN 0 ELSE EntryTokens(Head(list)) + SumTokens(Tail(list))

AddReturned == last.op = "add_message" /\ last.outcome = "ok"

\* The last add_message got as far as recording its turn in the enhanced ledger
AddRecordedTurn ==
    last.op = "add_message" /\ last.outcome \notin {"TypeError@56", "TypeError@232"}

\* Where the turn of the last add_message sits in the enhanced ledger
NewTurnAt ==
    IF last.outcome = "ok" THEN Len(enhanced_messages) - 1 ELSE Len(enhanced_messages)

IsUserTurn(e) == HasKey(e, "user_content")

\* Positions of the user turns recorded before the turn of the last add_message
EarlierUserTurns ==
    {i \in 1..(NewTurnAt - 1) : IsUserTurn(enhanced_messages[i])}

Greatest(S) == CHOOSE i \in S : \A j \in S : j <= i

\* Positions of the compacted ledger that hold a user turn still in its raw form
PendingAt ==
    {i \in 1..Len(messages) : HasKey(messages[i], "role") /\ messages[i].role = "user"}

\* What the enqueue-time estimate of a turn's cost is (line 234)
TurnCost(args) ==
    _token_count(args.user_content) + _token_count(args.data)
    + _token_count(StrFunctionInfo(args.function_info))

WellFormed(args) == args.data # NoneV /\ args.function_info # NoneFI

\* C1: after every successful add_message, total_tokens equals the sum of the token
\* counts of the messages in the compacted ledger.
C1_LedgerInvariant == AddReturned => total_tokens = SumTokens(messages)

\* C2: whenever the Window Fitter returns a start index, the overview plus the ledger
\* suffix from that index on (the ledger as the fitter saw it) counts at most max_tokens.
C2_RequestFitsBudget ==
    (last.op = "add_message" /\ last.fit.ran /\ last.fit.idx >= 0) =>
        LET from == IF last.fit.idx = 0 THEN 1 ELSE last.fit.idx
        IN _token_count(high_level_overview)
           + SumTokens(SubSeq(messages, from + 1, last.fit.len)) <= max_tokens

\* The fitter returned an index and the request from that index on went to the service
C2_Witness ==
    /\ last.op = "add_message" /\ last.fit.ran /\ last.fit.idx >= 0
    /\ Len(last.calls) > 0
    /\ last.calls[1].messages = SubSeq(messages, last.fit.idx + 1, last.fit.len)

\* C3: in every reachable state index 0 of the compacted ledger is the system overview
\* message created at construction.
C3_OverviewPermanence == Len(messages) >= 1 /\ messages[1] = Overview

\* A compaction has replaced an entry of the ledger and the call that did it failed
C3_Witness ==
    /\ last.op = "add_message" /\ last.outcome # "ok"
    /\ last.compact.ran /\ last.compact.err = ""
    /\ \E i \in 1..Len(messages) : HasKey(messages[i], "str")

\* C4: an add_message that fails leaves the compacted ledger, the enhanced ledger and
\* total_tokens exactly as they were before the call.
C4_FailedAddIsNoOp ==
    [][(last'.op = "add_message" /\ last'.outcome # "ok") =>
           /\ messages' = messages
           /\ enhanced_messages' = enhanced_messages
           /\ total_tokens' = total_tokens]_vars

\* C5: between calls at most one user turn is uncompacted, and it is the most recent
\* user turn.
C5_SinglePending ==
    /\ Cardinality(PendingAt) <= 1
    /\ \A i \in PendingAt :
          \A j \in (i + 1)..Len(messages) :
              ~(HasKey(messages[j], "str") \/ messages[j].role = "user")

\* C6: when overview_tokens plus the cost of the newest turn exceeds max_tokens,
\* add_message fails with the budget error and no service call was made in it.
C6_InfeasibleFailsFirst ==
    (/\ last.op = "add_message"
     /\ WellFormed(last.args)
     /\ _token_count(high_level_overview) + TurnCost(last.args) > max_tokens)
    => (last.outcome = "ValueError@129" /\ last.calls = <<>>)

\* C7: an add_message that records user turn N+1 hands user turn N, the latest earlier
\* user turn, to the compaction engine, and that compaction completes in the call.
C7_CompactsPreviousTurn ==
    (AddRecordedTurn /\ EarlierUserTurns # {}) =>
        /\ last.compact.ran
        /\ last.compact.at = Greatest(EarlierUserTurns)
        /\ last.compact.err = ""

\* The rendering the reference gives for a turn, with summary the sub-flow's answer
Reference(turn, summary) ==
    turn.user_content
    \o (CASE turn.data_policy = "DataPolicy.PURE" -> DataFraming \o turn.data \o <<".">>
          [] turn.data_policy = "DataPolicy.SUMMARIZE" -> DataFraming \o summary \o <<".">>
          [] OTHER -> <<>>)
    \o (IF turn.function_policy = "FunctionPolicy.INCLUDE" /\ turn.function_info # NoneFI
        THEN FunctionDesc(turn.function_info) ELSE <<>>)

\* C8: the text compact produces for a turn with a recognised data policy is the
\* reference rendering.
C8_CompactRendersReference ==
    (last.compact.ran /\ last.compact.turn.data_policy \in DataPolicy) =>
        /\ last.compact.err = ""
        /\ \E r \in Responses : last.compact.text = Reference(last.compact.turn, Str(r.content))

\* C9: a turn given an unrecognised data_policy or function_policy makes add_message
\* fail with the configuration error, with no service call.
C9_UnknownPolicyRaises ==
    (/\ last.op = "add_message"
     /\ WellFormed(last.args)
     /\ \/ last.args.data_policy \notin DataPolicy \cup {"None"}
        \/ last.args.function_policy \notin FunctionPolicy \cup {"include"})
    => (last.outcome = "ValueError@270" /\ last.calls = <<>>)

\* C10: after every summarize call the sub-flow's list is the seed instruction alone.
C10_SubflowRestored == summarization_messages = <<Seed>>

\* The attempts of the last _call_openai before the i-th all raised JSONDecodeError
TransientBefore(i) ==
    \A j \in 1..(i - 1) : last.attempts[j].kind = "JSONDecodeError"

\* C11: a completion call whose attempts all fail with the transient failure makes its
\* first attempt and max_retries retries, and then ends with the fatal error.
C11_RetriesMaxRetriesTimes ==
    (last.op = "_call_openai" /\ TransientBefore(last.max_retries + 2)) =>
        /\ last.outcome = "Exception@362"
        /\ Len(last.calls) = 1 + last.max_retries

\* C12: a failure of the service other than the transient one ends the call at the
\* attempt it occurs in and comes out of the call as that failure.
C12_OtherFailurePropagates ==
    last.op = "_call_openai" =>
        \A i \in 1..last.max_retries :
            (last.attempts[i].kind = "error" /\ TransientBefore(i)) =>
                (last.outcome = "ServiceError" /\ Len(last.calls) = i)

\* Another failure came after a retried one, with retries still left
C12_Witness ==
    /\ last.op = "_call_openai" /\ last.outcome = "ServiceError"
    /\ Len(last.calls) >= 2 /\ Len(last.calls) < last.max_retries
    /\ last.attempts[Len(last.calls)].kind = "error"

\* The i-th entry of the ledger as visualize is to print it: number, role, content
PrintedEntry(out, i) ==
    /\ Len(out) >= 4 * i
    /\ out[4 * i - 3] = [line |-> "Message", n |-> i]
    /\ out[4 * i - 2].line = "Role"
    /\ out[4 * i - 1].line = "Content"
    /\ HasKey(messages[i], "role") =>
          /\ out[4 * i - 2].text = <<messages[i].role>>
          /\ out[4 * i - 1].text = Str(messages[i].content)

\* C13: visualize changes neither ledger nor counter, prints every entry of the
\* compacted ledger in order, role then content, and prints the same when called again.
C13_VisualizeReadOnly ==
    [][last'.op = "visualize_context_window" =>
          /\ UNCHANGED <<messages, enhanced_messages, total_tokens, tokens_sent>>
          /\ last'.outcome = "ok"
          /\ Len(last'.out) = 4 * Len(messages)
          /\ \A i \in 1..Len(messages) : PrintedEntry(last'.out, i)
          /\ last.op = "visualize_context_window" => last'.out = last.out]_vars

DistinctNames(pairs) ==
    \A i, j \in 1..Len(pairs) : pairs[i][1] = pairs[j][1] => i = j

\* C14: the description of a function call is the fixed header naming the function, then
\* exactly one clause per argument in the order the service returned them; with no
\* arguments it is the fixed no-parameters message.
C14_OneClausePerArgument ==
    (/\ last.op = "_generate_function_description"
     /\ last.model_func # NoneFC
     /\ DistinctNames(last.model_func.arguments)) =>
        LET pairs == last.model_func.arguments
            n == Len(pairs)
        IN IF n = 0
           THEN last.out = <<"The model attempted to call the function",
                             last.model_func.name,
                             "but did not provide any parameters.">>
           ELSE /\ Len(last.out) = 3 + 5 * n
                /\ SubSeq(last.out, 1, 3) =
                      <<"The model returned function parameters for the requested function",
                        last.model_func.name, ".">>
                /\ \A i \in 1..n :
                      SubSeq(last.out, 5 * i - 1, 5 * i + 3) =
                         <<"For parameter", pairs[i][1], "the model generated",
                           pairs[i][2], ".">>

C14_Witness ==
    /\ last.op = "_generate_function_description"
    /\ last.model_func # NoneFC
    /\ Len(last.model_func.arguments) = 2
    /\ DistinctNames(last.model_func.arguments)
    /\ Len(last.out) = 13

\* C15: a turn added with data_policy None is recorded with the instance's
\* default_data_policy, and is later compacted under it.
C15_DefaultDataPolicy ==
    /\ (AddRecordedTurn /\ last.args.data_policy = "None") =>
          enhanced_messages[NewTurnAt].data_policy = default_data_policy
    /\ (/\ last.op = "add_message" /\ last.compact.ran
        /\ last.compact.turn.data_policy \in {"None", default_data_policy}) =>
          /\ last.compact.err = ""
          /\ last.compact.text = Reference([last.compact.turn EXCEPT
                                               !.data_policy = default_data_policy],
                                           NoneV)

\* The 0-based indices of a ledger, past the overview, at which the token counts
\* accumulated from the oldest non-overview message do not exceed the threshold
FittingIndices(ledger, threshold) ==
    {k \in 1..(Len(ledger) - 1) : SumTokens(SubSeq(ledger, 2, k + 1)) <= threshold}

\* C16: with a feasible budget the fitter returns 0 when
\* max_tokens - total_tokens - overview_tokens is not negative, and otherwise the first
\* index, scanning from the oldest non-overview message, whose accumulated token count
\* does not exceed the absolute value of that remainder.
C16_FitterIndex ==
    (last.op = "add_message" /\ last.fit.ran /\ last.outcome # "ValueError@129") =>
        LET remaining == max_tokens - total_tokens - _token_count(high_level_overview)
            ledger == SubSeq(messages, 1, last.fit.len)
            fitting == FittingIndices(ledger, Abs(remaining))
        IN /\ last.fit.idx >= 0
           /\ remaining >= 0 => last.fit.idx = 0
           /\ (remaining < 0 /\ fitting # {}) =>
                 /\ last.fit.idx \in fitting
                 /\ \A k \in fitting : last.fit.idx <= k

IsResponseEntry(m) == HasKey(m, "role") /\ m.role = "assistant"

\* C17: a response recorded in the compacted ledger is never replaced or altered by
\* a later add_message, whether or not a failed add_message came before, and is
\* never handed to the Compaction Engine.
C17_ResponsesNeverCompacted ==
    [][/\ \A i \in 1..Len(messages) :
             IsResponseEntry(messages[i]) =>
                (Len(messages') >= i /\ messages'[i] = messages[i])
       /\ \A j \in 1..Len(enhanced_messages) :
             ~IsUserTurn(enhanced_messages[j]) =>
                (Len(enhanced_messages') >= j
                 /\ enhanced_messages'[j] = enhanced_messages[j])
       /\ (last'.op = "add_message" /\ last'.compact.ran) =>
             IsUserTurn(last'.compact.turn)]_vars

\* C18: once a turn is compacted, its token_count is the Token Accountant's count of
\* the complete rendered text, framing sentences included.
C18_TokenCountOfRenderedText ==
    (last.op = "add_message" /\ last.compact.ran /\ last.compact.err = "") =>
        enhanced_messages[last.compact.at].token_count = _token_count(last.compact.text)

\* C19: the enhanced-ledger lookup of add_message never falls outside the list, and
\* when the call compacts, the entry it reads (third from the end of the enhanced
\* ledger) and the entry it overwrites (third from the end of the compacted ledger)
\* are the same turn, the previous user message.
C19_SameTurnThirdFromBack ==
    last.op = "add_message" =>
        /\ last.outcome # "IndexError@63"
        /\ last.compact.ran =>
              /\ ThirdFromBack(messages) = last.compact.at + 1
              /\ IsUserTurn(last.compact.turn)
              /\ last.compact.at = Greatest(EarlierUserTurns)

\* The last step was an add_message that the Window Fitter ended with an exception
FitterRaised ==
    /\ last'.op = "add_message" /\ last'.fit.ran
    /\ last'.outcome \in {"ValueError@129", "KeyError@140", "TypeError@140"}

\* What the Manager itself does up to the fitter (lines 56-58) and nothing more
ManagerAppendsOnly ==
    /\ Len(messages') = Len(messages) + 1
    /\ SubSeq(messages', 1, Len(messages)) = messages
    /\ Len(enhanced_messages') = Len(enhanced_messages) + 1
    /\ SubSeq(enhanced_messages', 1, Len(enhanced_messages)) = enhanced_messages

CompactionRan == last'.op = "add_message" /\ last'.compact.ran

====
